---- MODULE Spec2Model ----
(***************************************************************************)
(* Model of the BulkDownloadProducerAi orchestrator (main), its progress   *)
(* state store (state.js), the page fetch (api.js) and, from the           *)
(* specification, the item download with its staging file.                 *)
(*                                                                         *)
(* Item ids are opaque strings in the program; here the remote collection  *)
(* is the sequence of ids 1..NumItems in the order the API returns them.   *)
(* The state file holds JSON of integers, strings and arrays, for which    *)
(* JSON.stringify followed by JSON.parse gives back the same value; the    *)
(* informational fields lastRun and createdAt are left out.                *)
(***************************************************************************)
EXTENDS Integers, Sequences, FiniteSets, TLC

\* ---- bounds of the model ------------------------------------------------
NumItems == 22        \* size of the remote collection
NumFlaky == 1         \* the first NumFlaky items of the collection are flaky
MaxRuns == 2          \* process starts in one behaviour
MaxFetchFails == 2    \* consecutive page-fetch errors

\* ---- program constants --------------------------------------------------
limit == 20
checkpointEvery == 10
maxRetries == 2

Items == 1..NumItems

VARIABLES
    pc,             \* position of the process in main
    run,            \* number of process starts so far
    disk,           \* content of download-state.json
    files,          \* ids whose destination file exists in outputDir
    staging,        \* ids whose staging (.downloading) file exists in outputDir
    attempts,       \* failed download attempts of the item in progress
    state,          \* main: let state
    stats,          \* main: const stats
    offset,         \* main: let offset
    hasMore,        \* main: let hasMore
    totalProcessed, \* main: let totalProcessed
    generations,    \* the page being processed
    idx,            \* position of the for-of loop in generations
    fetchFails,     \* consecutive page-fetch errors
    lastFetch,      \* outcome of the last fetchGenerations call
    lastSave,       \* the saveState call of the step just taken, if any
    loaded,         \* what loadState returned in this run
    resolved,       \* ids resolved so far, in any run
    attempted,      \* ids handed to downloadTrackWithRetry in this run
    mustRetry,      \* ids listed as failed when the previous run completed
    obs             \* what the run did so far, for the properties

vars == <<pc, run, disk, files, staging, attempts, state, stats, offset, hasMore, totalProcessed,
          generations, idx, fetchFails, lastFetch, lastSave,
          loaded, resolved, attempted, mustRetry, obs>>

\* ---- state store (state.js) ----------------------------------------------
getDefaultState ==
    [shape |-> "ok", lastOffset |-> 0, downloaded |-> 0, skipped |-> 0,
     failed |-> <<>>]

\* JSON values of the state file that are not a progress record
JsonNull == [getDefaultState EXCEPT !.shape = "null"]
JsonNoFailed == [getDefaultState EXCEPT !.shape = "noFailed"]

NoFile == [kind |-> "absent", val |-> getDefaultState]
UnreadableFile == [kind |-> "unreadable", val |-> getDefaultState]
UnparseableFile == [kind |-> "unparseable", val |-> getDefaultState]
JsonFile(v) == [kind |-> "json", val |-> v]

loadState(d) ==
    IF d.kind = "absent" THEN getDefaultState
    ELSE IF d.kind \in {"unreadable", "unparseable"} THEN getDefaultState
    ELSE d.val

\* outcomes of fs.writeFileSync: written, failed before the file was opened,
\* failed after the file was truncated
WriteOutcomes == {"ok", "openFailed", "writeFailed"}

saveState(d, st, w) ==
    IF w = "ok" THEN JsonFile(st)
    ELSE IF w = "openFailed" THEN d
    ELSE UnparseableFile

saveStateThrows_NoCatch(w) == w # "ok"

\* the try/catch of saveState swallows every error of the write
saveStateThrows(w) == FALSE

NoSave == [kind |-> "none", result |-> "ok", arg |-> getDefaultState]
Saved(k, w, st) == [kind |-> k, result |-> w, arg |-> st]

\* ---- page fetch (api.js) -------------------------------------------------
Min(a, b) == IF a < b THEN a ELSE b

fetchGenerations(o) ==
    [i \in 1..(IF o < NumItems THEN Min(limit, NumItems - o) ELSE 0) |-> o + i]

\* ---- item download (downloader.js, not in the sources) -------------------
\* The download of a flaky item is followed attempt by attempt: an attempt
\* writes the staging file and then succeeds, fails or throws, and the
\* process can be killed while it writes. Every other item is downloaded in
\* one step and succeeds.
Flaky(g) == g <= NumFlaky

\* The results downloadTrackWithRetry can return now for item g, after n
\* failed attempts. An item whose destination file exists is skipped before
\* anything else is done for it. Otherwise an attempt in progress succeeds,
\* throws or, when it is the attempt after the last retry, fails with a
\* Failed result; an earlier failure is retried (AttemptFails).
downloadTrackWithRetry(g, fs, writing, n) ==
    IF ~writing
    THEN IF g \in fs THEN {"skipped"}
         ELSE IF Flaky(g) THEN {} ELSE {"success"}
    ELSE {"success", "threw"} \cup (IF n = maxRetries THEN {"failed"} ELSE {})

\* What is left of the staging files after item g was resolved with r: a
\* success renames the staging file of g to the destination, and after a
\* failure or an error the staging file of g is deleted (the deletion is
\* followed only when it succeeds).
StagingAfter(stg, g, r) == stg \ {g}

\* ---- cleanup of staging files (state.js) ---------------------------------
\* readdirSync lists the staging files (listed) and unlinkSync removes each
\* of them but those for which it throws (kept)
cleanupDownloadingFiles(stg, listed, kept) ==
    IF listed THEN stg \cap kept ELSE stg

\* ---- main ----------------------------------------------------------------
NoStats == [downloaded |-> 0, skipped |-> 0, failed |-> 0]

\* obs.tokenValid: what validateToken returned in this run
\* obs.effects:    the effects of the core that happened in this run
\* obs.pageCalls:  ids handed to downloadTrackWithRetry for the current page
\* obs.sinceSave:  items resolved since the last call of saveState
\* obs.handled:    items handed to downloadTrackWithRetry in this run
\* obs.lastItem:   the item resolved by the step just taken, with the counters
\*                 and the failed list before it
\* obs.pageStart:  the counters when the current page was fetched, and whether
\*                 every destination file of the page existed then
NoItem == [id |-> 0, status |-> "none", existed |-> FALSE, attempts |-> 0,
           stats |-> NoStats, failed |-> <<>>]

NoObs ==
    [tokenValid |-> "unknown", effects |-> {}, pageCalls |-> <<>>,
     sinceSave |-> 0, handled |-> 0, lastItem |-> NoItem,
     pageStart |-> [stats |-> NoStats, allPresent |-> FALSE]]

Running == {"validate", "setup", "load", "fetch", "delay", "items", "writing",
            "summary"}

Init ==
    /\ pc = "validate"
    /\ run = 1
    /\ disk \in {NoFile, UnreadableFile, UnparseableFile,
                 JsonFile(JsonNull), JsonFile(JsonNoFailed)}
    /\ files = {}
    /\ staging = {}
    /\ attempts = 0
    /\ state = getDefaultState
    /\ stats = NoStats
    /\ offset = 0
    /\ hasMore = TRUE
    /\ totalProcessed = 0
    /\ generations = <<>>
    /\ idx = 1
    /\ fetchFails = 0
    /\ lastFetch = "none"
    /\ lastSave = NoSave
    /\ loaded = getDefaultState
    /\ resolved = {}
    /\ attempted = {}
    /\ mustRetry = {}
    /\ obs = NoObs

ClearMemory ==
    /\ state' = getDefaultState
    /\ stats' = NoStats
    /\ offset' = 0
    /\ hasMore' = TRUE
    /\ totalProcessed' = 0
    /\ generations' = <<>>
    /\ idx' = 1
    /\ fetchFails' = 0
    /\ lastFetch' = "none"
    /\ lastSave' = NoSave
    /\ loaded' = getDefaultState
    /\ attempts' = 0
    /\ obs' = NoObs

\* the process is started again after it exited or was killed
Start ==
    /\ pc \in {"done", "fatal", "killed"}
    /\ run < MaxRuns
    /\ pc' = "validate"
    /\ run' = run + 1
    /\ ClearMemory
    /\ attempted' = {}
    /\ mustRetry' = IF pc = "done" /\ state.shape = "ok"
                    THEN {state.failed[i] : i \in 1..Len(state.failed)}
                    ELSE {}
    /\ UNCHANGED <<disk, files, staging, resolved>>

\* the process is killed at an await or between two statements
Kill ==
    /\ pc \in Running
    /\ pc' = "killed"
    /\ ClearMemory
    /\ UNCHANGED <<run, disk, files, staging, resolved, attempted, mustRetry>>

ValidateToken_ContinuesWhenInvalid ==
    /\ pc = "validate"
    /\ \E isTokenValid \in BOOLEAN :
         /\ pc' = "setup"
         /\ obs' = [obs EXCEPT !.tokenValid =
                                 IF isTokenValid THEN "valid" ELSE "invalid"]
    /\ lastSave' = NoSave
    /\ UNCHANGED <<run, disk, files, staging, attempts, state, stats, offset, hasMore,
                   totalProcessed, generations, idx, fetchFails, lastFetch,
                   loaded, resolved, attempted, mustRetry>>

\* Step 2: validateToken; an invalid token throws to the catch of main
ValidateToken ==
    /\ pc = "validate"
    /\ \E isTokenValid \in BOOLEAN :
         /\ pc' = IF isTokenValid THEN "setup" ELSE "fatal"
         /\ obs' = [obs EXCEPT !.tokenValid =
                                 IF isTokenValid THEN "valid" ELSE "invalid"]
    /\ lastSave' = NoSave
    /\ UNCHANGED <<run, disk, files, staging, attempts, state, stats, offset, hasMore,
                   totalProcessed, generations, idx, fetchFails, lastFetch,
                   loaded, resolved, attempted, mustRetry>>

\* Step 3: output directory and cleanup of staging files
Setup ==
    /\ pc = "setup"
    /\ \E mkdirOk \in BOOLEAN :
         IF mkdirOk
         THEN \E listed \in BOOLEAN, kept \in SUBSET staging :
                /\ pc' = "load"
                /\ staging' = cleanupDownloadingFiles(staging, listed, kept)
                /\ obs' = [obs EXCEPT !.effects = @ \cup {"cleanup"}]
         ELSE \* mkdirSync threw: the catch of main exits
              /\ pc' = "fatal"
              /\ staging' = staging
              /\ obs' = obs
    /\ lastSave' = NoSave
    /\ UNCHANGED <<run, disk, files, attempts, state, stats, offset, hasMore,
                   totalProcessed, generations, idx, fetchFails, lastFetch,
                   loaded, resolved, attempted, mustRetry>>

InitialStats_CountersFromZero(st) ==
    [downloaded |-> 0, skipped |-> 0, failed |-> Len(st.failed)]

InitialStats_FailedFromZero(st) ==
    [downloaded |-> st.downloaded, skipped |-> st.skipped, failed |-> 0]

\* lines 76-80: const stats
InitialStats(st) ==
    [downloaded |-> st.downloaded, skipped |-> st.skipped,
     failed |-> Len(st.failed)]

\* Step 4 and the start of step 5: loadState, stats, offset
LoadState ==
    /\ pc = "load"
    /\ LET st == loadState(disk) IN
         /\ state' = st
         /\ loaded' = st
         /\ IF st.shape = "ok"
            THEN /\ stats' = InitialStats(st)
                 /\ offset' = st.lastOffset
                 /\ pc' = "fetch"
            ELSE \* TypeError on state.lastOffset or state.failed.length
                 /\ stats' = stats
                 /\ offset' = offset
                 /\ pc' = "fatal"
    /\ hasMore' = TRUE
    /\ totalProcessed' = 0
    /\ lastSave' = NoSave
    /\ obs' = [obs EXCEPT !.effects = @ \cup {"load"}]
    /\ UNCHANGED <<run, disk, files, staging, attempts, generations, idx,
                   fetchFails, lastFetch, resolved, attempted, mustRetry>>

\* fetchGenerations returned a page
FetchPage ==
    /\ pc = "fetch"
    /\ LET page == fetchGenerations(offset) IN
         /\ generations' = page
         /\ IF Len(page) = 0
            THEN /\ hasMore' = FALSE
                 /\ pc' = "summary"
                 /\ lastFetch' = "empty"
            ELSE /\ hasMore' = hasMore
                 /\ pc' = "items"
                 /\ lastFetch' = "items"
    /\ idx' = 1
    /\ fetchFails' = 0
    /\ lastSave' = NoSave
    /\ obs' = [obs EXCEPT
                 !.effects = @ \cup {"fetch"},
                 !.pageCalls = <<>>,
                 !.lastItem = NoItem,
                 !.pageStart =
                     [stats |-> stats,
                      allPresent |->
                          \A i \in 1..Len(fetchGenerations(offset)) :
                              fetchGenerations(offset)[i] \in files]]
    /\ UNCHANGED <<run, disk, files, staging, attempts, state, stats, offset, totalProcessed,
                   loaded, resolved, attempted, mustRetry>>

FetchError_SkipsPage ==
    /\ pc = "fetch"
    /\ fetchFails < MaxFetchFails
    /\ pc' = "delay"
    /\ fetchFails' = fetchFails + 1
    /\ lastFetch' = "error"
    /\ obs' = [obs EXCEPT !.effects = @ \cup {"fetch"}]
    /\ offset' = offset + limit
    /\ lastSave' = NoSave
    /\ UNCHANGED <<run, disk, files, staging, attempts, state, stats, hasMore,
                   totalProcessed, generations, idx, loaded, resolved,
                   attempted, mustRetry>>

FetchError_GivesUp ==
    /\ pc = "fetch"
    /\ fetchFails < MaxFetchFails
    /\ pc' = IF fetchFails + 1 = MaxFetchFails THEN "fatal" ELSE "delay"
    /\ fetchFails' = fetchFails + 1
    /\ lastFetch' = "error"
    /\ obs' = [obs EXCEPT !.effects = @ \cup {"fetch"}]
    /\ offset' = offset
    /\ lastSave' = NoSave
    /\ UNCHANGED <<run, disk, files, staging, attempts, state, stats, hasMore,
                   totalProcessed, generations, idx, loaded, resolved,
                   attempted, mustRetry>>

\* fetchGenerations threw: the catch of the page loop logs and waits
FetchError ==
    /\ pc = "fetch"
    /\ fetchFails < MaxFetchFails
    /\ pc' = "delay"
    /\ fetchFails' = fetchFails + 1
    /\ lastFetch' = "error"
    /\ obs' = [obs EXCEPT !.effects = @ \cup {"fetch"}]
    /\ lastSave' = NoSave
    /\ UNCHANGED <<run, disk, files, staging, attempts, state, stats, offset, hasMore,
                   totalProcessed, generations, idx, loaded, resolved,
                   attempted, mustRetry>>

\* the 5 second delay elapsed: next iteration of while (hasMore)
RetryDelay ==
    /\ pc = "delay"
    /\ pc' = "fetch"
    /\ lastSave' = NoSave
    /\ obs' = obs
    /\ UNCHANGED <<run, disk, files, staging, attempts, state, stats, offset, hasMore,
                   totalProcessed, generations, idx, fetchFails, lastFetch,
                   loaded, resolved, attempted, mustRetry>>

\* line 131: the periodic checkpoint keeps the offset of the page in progress
CheckpointOffset_PastPage(o) == o + limit

CheckpointOffset(o) == o

\* line 143: offset += limit
NextOffset_ByPageLength(o, page) == o + Len(page)

NextOffset(o, page) == o + limit

\* line 130: if (totalProcessed % 10 === 0)
CheckpointDue(n) == n % checkpointEvery = 0

\* line 125 and 139: state.failed.push(generation.id)
RecordFailure(failed, id) == Append(failed, id)

NextIndex_BreaksOnFailure(i, r, n) ==
    IF r \in {"failed", "threw"} THEN n + 1 ELSE i + 1

\* line 103 and the catch of lines 136-140: the for-of loop goes on to the
\* next item of the page whatever the outcome r of item i was
NextIndex(i, r, n) == i + 1

\* downloadTrackWithRetry begins a download attempt of a flaky item: the
\* payload is written to the staging file
StartAttempt ==
    /\ pc = "items"
    /\ idx <= Len(generations)
    /\ generations[idx] \notin files
    /\ Flaky(generations[idx])
    /\ pc' = "writing"
    /\ staging' = staging \cup {generations[idx]}
    /\ lastSave' = NoSave
    /\ obs' = [obs EXCEPT !.effects = @ \cup {"download"}, !.lastItem = NoItem]
    /\ UNCHANGED <<run, disk, files, attempts, state, stats, offset, hasMore,
                   totalProcessed, generations, idx, fetchFails, lastFetch,
                   loaded, resolved, attempted, mustRetry>>

\* a download attempt failed and a retry is left: the next attempt writes
\* the same staging file again
AttemptFails ==
    /\ pc = "writing"
    /\ attempts < maxRetries
    /\ attempts' = attempts + 1
    /\ lastSave' = NoSave
    /\ UNCHANGED <<pc, obs, staging, run, disk, files, state, stats, offset, hasMore,
                   totalProcessed, generations, idx, fetchFails, lastFetch,
                   loaded, resolved, attempted, mustRetry>>

\* lines 117-127: the counter of the result is incremented
CountOutcome_FailedAlsoSkipped(st, r) ==
    [downloaded |-> st.downloaded + (IF r = "success" THEN 1 ELSE 0),
     skipped |-> st.skipped + (IF r \in {"skipped", "failed"} THEN 1 ELSE 0),
     failed |-> st.failed + (IF r = "failed" THEN 1 ELSE 0)]

CountOutcome_FailedUncounted(st, r) ==
    [downloaded |-> st.downloaded + (IF r = "success" THEN 1 ELSE 0),
     skipped |-> st.skipped + (IF r = "skipped" THEN 1 ELSE 0),
     failed |-> st.failed]

CountOutcome_SkippedAsDownloaded(st, r) ==
    [downloaded |-> st.downloaded + (IF r \in {"success", "skipped"} THEN 1 ELSE 0),
     skipped |-> st.skipped,
     failed |-> st.failed + (IF r = "failed" THEN 1 ELSE 0)]

CountOutcome(st, r) ==
    [downloaded |-> st.downloaded + (IF r = "success" THEN 1 ELSE 0),
     skipped |-> st.skipped + (IF r = "skipped" THEN 1 ELSE 0),
     failed |-> st.failed + (IF r = "failed" THEN 1 ELSE 0)]

\* one iteration of for (const generation of generations), from the result
\* or the error of downloadTrackWithRetry on
ProcessItem ==
    /\ pc \in {"items", "writing"}
    /\ idx <= Len(generations)
    /\ LET g == generations[idx] IN
       \E r \in downloadTrackWithRetry(g, files, pc = "writing", attempts) :
         LET returned == r # "threw"
             tp == IF returned THEN totalProcessed + 1 ELSE totalProcessed
             st1 == CountOutcome(stats, r)
             fl1 == IF r = "failed" THEN RecordFailure(state.failed, g)
                    ELSE state.failed
             due == returned /\ CheckpointDue(tp)
             s2 == IF due
                   THEN [state EXCEPT !.failed = fl1,
                                      !.lastOffset = CheckpointOffset(offset),
                                      !.downloaded = st1.downloaded,
                                      !.skipped = st1.skipped]
                   ELSE [state EXCEPT !.failed = fl1]
         IN \E w \in (IF due THEN WriteOutcomes ELSE {"ok"}) :
              LET caught == r = "threw" \/ (due /\ saveStateThrows(w)) IN
                /\ disk' = IF due THEN saveState(disk, s2, w) ELSE disk
                /\ lastSave' = IF due THEN Saved("periodic", w, s2) ELSE NoSave
                \* catch (error) of the item: stats.failed++, push
                /\ stats' = IF caught THEN [st1 EXCEPT !.failed = @ + 1] ELSE st1
                /\ state' = IF caught
                            THEN [s2 EXCEPT !.failed = RecordFailure(@, g)]
                            ELSE s2
                /\ totalProcessed' = tp
                /\ files' = IF r = "success" THEN files \cup {g} ELSE files
                /\ staging' = StagingAfter(staging, g, r)
                /\ resolved' = resolved \cup {g}
                /\ attempted' = attempted \cup {g}
                /\ idx' = NextIndex(idx, r, Len(generations))
                /\ obs' = [obs EXCEPT
                             !.effects = @ \cup {"download"}
                                           \cup (IF due THEN {"save"} ELSE {}),
                             !.pageCalls = Append(@, g),
                             !.sinceSave = IF due THEN 0 ELSE @ + 1,
                             !.handled = @ + 1,
                             !.lastItem = [id |-> g, status |-> r,
                                           existed |-> g \in files,
                                           attempts |->
                                               IF r = "failed" THEN attempts + 1
                                               ELSE attempts,
                                           stats |-> stats,
                                           failed |-> state.failed]]
    /\ pc' = "items"
    /\ attempts' = 0
    /\ UNCHANGED <<run, offset, hasMore, generations, fetchFails, lastFetch,
                   loaded, mustRetry>>

\* lines 143-147, after the last item of the page
EndOfPage ==
    /\ pc = "items"
    /\ idx > Len(generations)
    /\ LET o == NextOffset(offset, generations)
           s2 == [state EXCEPT !.lastOffset = o,
                               !.downloaded = stats.downloaded,
                               !.skipped = stats.skipped]
       IN \E w \in WriteOutcomes :
            /\ offset' = o
            /\ state' = s2
            /\ disk' = saveState(disk, s2, w)
            /\ lastSave' = Saved("page", w, s2)
            \* an error thrown here reaches the catch of the page loop
            /\ pc' = IF saveStateThrows(w) THEN "delay" ELSE "fetch"
    /\ obs' = [obs EXCEPT !.effects = @ \cup {"save"}, !.sinceSave = 0,
                          !.lastItem = NoItem]
    /\ UNCHANGED <<run, files, staging, attempts, stats, hasMore,
                   totalProcessed, generations,
                   idx, fetchFails, lastFetch, loaded, resolved, attempted,
                   mustRetry>>

\* line 173: if (stats.failed === 0 && hasMore === false)
ResetCondition_IgnoresFailures(st, more) == more = FALSE

ResetCondition(st, more) == st.failed = 0 /\ more = FALSE

\* Step 6: summary and reset on complete success
Finish ==
    /\ pc = "summary"
    /\ IF ResetCondition(stats, hasMore)
       THEN LET s2 == [state EXCEPT !.lastOffset = 0, !.downloaded = 0,
                                    !.skipped = 0, !.failed = <<>>]
            IN \E w \in WriteOutcomes :
                 /\ state' = s2
                 /\ disk' = saveState(disk, s2, w)
                 /\ lastSave' = Saved("reset", w, s2)
                 \* an error thrown here reaches the catch of main
                 /\ pc' = IF saveStateThrows(w) THEN "fatal" ELSE "done"
                 /\ obs' = [obs EXCEPT !.effects = @ \cup {"save"},
                                       !.sinceSave = 0, !.lastItem = NoItem]
       ELSE /\ pc' = "done"
            /\ lastSave' = NoSave
            /\ obs' = [obs EXCEPT !.lastItem = NoItem]
            /\ UNCHANGED <<state, disk>>
    /\ UNCHANGED <<run, files, staging, attempts, stats, offset, hasMore,
                   totalProcessed,
                   generations, idx, fetchFails, lastFetch, loaded, resolved,
                   attempted, mustRetry>>

Next ==
    \/ Start
    \/ Kill
    \/ ValidateToken
    \/ Setup
    \/ LoadState
    \/ FetchPage
    \/ FetchError
    \/ RetryDelay
    \/ StartAttempt
    \/ AttemptFails
    \/ ProcessItem
    \/ EndOfPage
    \/ Finish

Spec == Init /\ [][Next]_vars

\* The program is sequential and every call of it returns, so a step of a
\* run that can be taken is taken; a page fetch that is retried for ever
\* succeeds at last. Nothing obliges the environment to kill or start the
\* process.
FairSpec ==
    /\ Spec
    /\ WF_vars(ValidateToken)
    /\ WF_vars(Setup)
    /\ WF_vars(LoadState)
    /\ SF_vars(FetchPage)
    /\ WF_vars(RetryDelay)
    /\ WF_vars(StartAttempt)
    /\ WF_vars(ProcessItem)
    /\ WF_vars(EndOfPage)
    /\ WF_vars(Finish)

\* ---- properties ----------------------------------------------------------
PageOffsetOf(i) == ((i - 1) \div limit) * limit

Persisted == disk.kind = "json" /\ disk.val.shape = "ok"

Ids(seq) == {seq[i] : i \in 1..Len(seq)}

NoDuplicates(seq) == Cardinality(Ids(seq)) = Len(seq)

\* the positions of a run from the pagination loop to the summary
InLoop == {"fetch", "delay", "items", "writing", "summary"}

\* C1: the persisted lastOffset, and the lastOffset of the state in memory,
\* is never greater than the offset of a page that has an item that was
\* never resolved (success, skipped or recorded failure).
C1_LastOffsetBehindUnresolved ==
    \A i \in Items \ resolved :
        /\ Persisted => disk.val.lastOffset <= PageOffsetOf(i)
        /\ state.shape = "ok" => state.lastOffset <= PageOffsetOf(i)

\* a periodic checkpoint written inside the second page, with an item of
\* that page still unresolved
C1_Witness ==
    /\ lastSave.kind = "periodic"
    /\ lastSave.result = "ok"
    /\ Persisted
    /\ disk.val.lastOffset = limit
    /\ Items \ resolved # {}

\* C2: the step that ends a page fetched at offset o leaves
\* state.lastOffset = o + limit, whatever the outcomes and the number of
\* items of the page.
C2_LastOffsetAdvancesByLimit ==
    [][(pc = "items" /\ pc' \in {"fetch", "delay"})
         => (/\ Len(generations) \in 1..limit
             /\ generations = fetchGenerations(offset)
             /\ state'.lastOffset = offset + limit)]_vars

\* the end of a short page in which an item failed
C2_Witness ==
    /\ lastSave.kind = "page"
    /\ Len(generations) < limit
    /\ stats.failed > 0
    /\ state.lastOffset = 2 * limit

NoFailureThisRun == stats.failed = Len(loaded.failed)

\* C3: a run that reaches the end of the collection without any item
\* failing in that run ends with the default progress state, in memory and,
\* when the write succeeded, in the state file.
C3_FullSuccessResets ==
    (pc = "done" /\ NoFailureThisRun)
        => /\ state = getDefaultState
           /\ lastSave.result = "ok" => disk = JsonFile(getDefaultState)

\* C4: a run that follows a completed run with a non-empty failed list has,
\* when it is done, handed every id of that list to downloadTrackWithRetry.
C4_FailedItemsRetried ==
    pc = "done" => mustRetry \subseteq attempted

\* C5: the failed list, in memory and in the state file, holds no id twice.
C5_FailedHasNoDuplicates ==
    /\ NoDuplicates(state.failed)
    /\ Persisted => NoDuplicates(disk.val.failed)

\* C6: the reset is written only after an empty page and with a failure
\* count of zero; a run whose failed list is not empty at the summary leaves
\* the state file as it is.
C6_ResetOnlyOnFullSuccess ==
    /\ [][(pc = "summary" /\ lastSave'.kind = "reset")
            => (/\ lastFetch = "empty"
                /\ Len(generations) = 0
                /\ hasMore = FALSE
                /\ stats.failed = 0
                /\ state.failed = <<>>)]_vars
    /\ [][(pc = "summary" /\ state.failed # <<>>)
            => (disk' = disk /\ lastSave'.kind # "reset")]_vars

\* the reset was written after every item was resolved
C6_Witness ==
    /\ pc = "done"
    /\ lastSave.kind = "reset"
    /\ lastSave.result = "ok"
    /\ disk = JsonFile(getDefaultState)
    /\ resolved = Items

\* C7: the step that loads the state never ends in the fatal exit.
C7_LoadNeverFatal ==
    [][pc = "load" => pc' # "fatal"]_vars

SaveNextStep(kind) ==
    CASE kind = "periodic" -> "items"
      [] kind = "page" -> "fetch"
      [] kind = "reset" -> "done"

\* C8: after a step that called saveState, whether the write succeeded or
\* failed, the run is at the step that follows the call and the state in
\* memory is the one handed to saveState, with the counters of the run in
\* step with it.
C8_SaveFailureIsIgnored ==
    lastSave.kind # "none"
        => /\ pc = SaveNextStep(lastSave.kind)
           /\ state = lastSave.arg
           /\ stats.failed = Len(state.failed)
           /\ lastSave.kind # "reset"
                => /\ state.downloaded = stats.downloaded
                   /\ state.skipped = stats.skipped

\* a failed write at each of the three kinds of checkpoint
C8_Witness ==
    /\ lastSave.kind = "page"
    /\ lastSave.result = "writeFailed"
    /\ disk = UnparseableFile
    /\ state.lastOffset = limit

\* C9: a failed page fetch and the delay that follows change neither the
\* offset, the state, the counters, the state file nor the files, process no
\* item and lead back to a fetch of the same offset; the item loop is
\* entered only from a successful fetch of the current offset.
C9_FetchErrorChangesNothing ==
    /\ [][((pc = "fetch" /\ lastFetch' = "error") \/ (pc = "delay" /\ pc' # "killed"))
            => (/\ pc' = IF pc = "fetch" THEN "delay" ELSE "fetch"
                /\ UNCHANGED <<offset, state, stats, disk, files,
                               totalProcessed, resolved, attempted>>)]_vars
    /\ [][(pc \notin {"items", "writing"} /\ pc' \in {"items", "writing"})
            => (/\ pc = "fetch"
                /\ lastFetch' = "items"
                /\ offset' = offset
                /\ generations' = fetchGenerations(offset))]_vars

\* two failed fetches of the second page
C9_Witness ==
    /\ pc = "delay"
    /\ fetchFails = 2
    /\ offset = limit
    /\ attempted = 1..limit

\* C10: from the page fetch or its retry delay the run goes to the summary
\* only on a successful empty page, to the item loop only on a successful
\* page with at least one item, and never to the fatal exit.
C10_FetchErrorsNeverEscalate ==
    [][(pc \in {"fetch", "delay"})
         => (\/ pc' \in {"fetch", "delay", "killed"}
             \/ /\ pc' = "summary"
                /\ lastFetch' = "empty"
                /\ fetchGenerations(offset) = <<>>
             \/ /\ pc' = "items"
                /\ lastFetch' = "items"
                /\ Len(fetchGenerations(offset)) >= 1)]_vars

\* the fetch is issued again after the largest number of failures
C10_Witness ==
    /\ pc = "fetch"
    /\ fetchFails = MaxFetchFails
    /\ lastFetch = "error"

\* C11: while a page is processed the ids handed to downloadTrackWithRetry
\* are the items of the page before the loop position, each once and in page
\* order, whatever their outcomes; when the page is closed and lastOffset is
\* advanced they are all the items of the page.
C11_PageNeverInterrupted ==
    /\ pc \in {"items", "writing"}
         => obs.pageCalls = SubSeq(generations, 1, idx - 1)
    /\ lastSave.kind = "page" => obs.pageCalls = generations

\* a full page closed after an item of it failed or threw in this run
C11_Witness ==
    /\ lastSave.kind = "page"
    /\ Len(generations) = limit
    /\ obs.pageCalls = generations
    /\ loaded.failed = <<>>
    /\ state.failed # <<>>

\* C12: an item resolved as Failed had maxRetries + 1 = 3 failed attempts and
\* no attempt after them; the step that resolves it appends its id once to
\* the failed list, adds one to the failed counter and leaves downloaded and
\* skipped as they were; no item is handed twice to the downloader in a pass
\* over the page, and an item resolved as downloaded or skipped leaves the
\* failed list as it was.
C12_ThreeFailuresResolveFailedOnce ==
    /\ obs.lastItem.status = "failed"
         => /\ obs.lastItem.attempts = 3
            /\ attempts = 0
            /\ pc = "items"
            /\ state.failed = Append(obs.lastItem.failed, obs.lastItem.id)
            /\ stats.failed = obs.lastItem.stats.failed + 1
            /\ stats.downloaded = obs.lastItem.stats.downloaded
            /\ stats.skipped = obs.lastItem.stats.skipped
    /\ obs.lastItem.status \in {"success", "skipped"}
         => /\ state.failed = obs.lastItem.failed
            /\ stats.failed = obs.lastItem.stats.failed
    /\ NoDuplicates(obs.pageCalls)

\* an item that failed in an earlier run fails three times again
C12_Witness ==
    /\ obs.lastItem.status = "failed"
    /\ obs.lastItem.attempts = maxRetries + 1
    /\ obs.lastItem.failed = <<obs.lastItem.id>>
    /\ state.failed = <<obs.lastItem.id, obs.lastItem.id>>
    /\ stats.failed = 2

\* C13: at most one staging file exists, no staging file belongs to an item
\* whose destination file exists, and from the cleanup of a start on the
\* only staging file there can be is the one of the item being written.
C13_StagingFilesRemovedAtStart ==
    /\ Cardinality(staging) <= 1
    /\ staging \cap files = {}
    /\ (pc \in {"load"} \cup InLoop)
         => staging \subseteq (IF pc = "writing" THEN {generations[idx]} ELSE {})

\* C14: an item whose destination file exists is resolved as Skipped with no
\* download attempt, downloaded unchanged and skipped one more; when a page
\* whose destination files all existed is closed, downloaded is what it was
\* when the page was fetched and skipped is larger by the length of the page.
C14_RerunSkipsExistingFiles ==
    /\ obs.lastItem.existed
         => /\ obs.lastItem.status = "skipped"
            /\ obs.lastItem.attempts = 0
            /\ obs.lastItem.id \notin staging
            /\ stats.downloaded = obs.lastItem.stats.downloaded
            /\ stats.skipped = obs.lastItem.stats.skipped + 1
            /\ stats.failed = obs.lastItem.stats.failed
    /\ (lastSave.kind = "page" /\ obs.pageStart.allPresent)
         => /\ stats.downloaded = obs.pageStart.stats.downloaded
            /\ stats.skipped = obs.pageStart.stats.skipped + Len(generations)

\* the second run, started from a reset state after a complete first run,
\* closes a full page of items that were all present
C14_Witness ==
    /\ run = 2
    /\ loaded = getDefaultState
    /\ lastSave.kind = "page"
    /\ obs.pageStart.allPresent
    /\ Len(generations) = limit
    /\ files = Items
    /\ stats.downloaded = 0
    /\ stats.skipped = limit

\* C15: at most 9 resolved items are unpersisted between two calls of
\* saveState.
C15_AtMostNineUnpersisted ==
    obs.sinceSave <= checkpointEvery - 1

\* the offset a restarted run would begin at
RestartOffset == loadState(disk).lastOffset

\* items resolved in this run that a restarted run would resolve again
Recomputed == Cardinality({i \in attempted : i > RestartOffset})

\* items of the page in progress that are not yet processed
Unprocessed == IF pc \in {"items", "writing"} THEN Len(generations) - (idx - 1) ELSE 0

\* C16: at every point where the run can be interrupted, the items it has
\* resolved and a restarted run would resolve again are at most 9 more than
\* the unprocessed items of the page in progress.
C16_RecomputedAfterKillBounded ==
    pc \in InLoop => Recomputed <= (checkpointEvery - 1) + Unprocessed

\* C17: a run whose token was found invalid is at the fatal exit and had no
\* effect of the core: no cleanup, load, save, fetch or download.
C17_InvalidTokenIsFatalBeforeCore ==
    obs.tokenValid = "invalid" => (pc = "fatal" /\ obs.effects = {})

\* the second run finds the token invalid with progress on disk
C17_Witness ==
    /\ obs.tokenValid = "invalid"
    /\ pc = "fatal"
    /\ run = 2
    /\ Persisted
    /\ disk.val.lastOffset = limit

\* C18 as stated: from the load to the end of the run the downloaded and
\* skipped counters of the progress state never decrease.
C18_StateCountersNeverDecrease ==
    [][(pc \in InLoop /\ pc' \in InLoop \cup {"done"})
         => (/\ state'.downloaded >= state.downloaded
             /\ state'.skipped >= state.skipped)]_vars

\* C18 as amended: the counters of the progress state and of the run are
\* never negative, those of the run never decrease, and those of the progress
\* state decrease only in the final reset, which sets them to 0.
C18_CountersDecreaseOnlyAtReset ==
    [][(pc \in InLoop /\ pc' \in InLoop \cup {"done"})
         => (/\ state.downloaded >= 0 /\ state.skipped >= 0
             /\ stats'.downloaded >= stats.downloaded
             /\ stats'.skipped >= stats.skipped
             /\ IF lastSave'.kind = "reset"
                THEN state'.downloaded = 0 /\ state'.skipped = 0
                ELSE /\ state'.downloaded >= state.downloaded
                     /\ state'.skipped >= state.skipped)]_vars

\* the reset of a run that had counted downloads and skips
C18_Witness ==
    /\ lastSave.kind = "reset"
    /\ stats.downloaded > 0
    /\ stats.skipped > 0
    /\ state.downloaded = 0
    /\ state.skipped = 0

\* C19: a run that has passed setup (the output directory exists and the
\* staging files were cleaned up) leaves the pagination loop and emits the
\* final summary, unless it is killed.
C19_RunReachesSummary ==
    (pc = "load") ~> (pc \in {"done", "killed"})

\* C20: from the load on, the failed counter of the run is the length of the
\* failed list in memory.
C20_FailedCounterIsListLength ==
    (pc \in InLoop \cup {"done"}) => stats.failed = Len(state.failed)

\* the summary of a run that loaded failures of an earlier run
C20_Witness ==
    /\ pc = "summary"
    /\ loaded.failed # <<>>
    /\ stats.failed > 0
    /\ Len(state.failed) = stats.failed

\* C21: the step that resolves an item adds one to exactly one counter of
\* the run, downloaded for a success, skipped for a skip, failed for a Failed
\* result or a thrown error, and leaves the other two as they were; so from
\* the load to the end of a run that is not killed the three counters add up
\* to the three values loaded at the start plus the number of items handed
\* to downloadTrackWithRetry in the run.
C21_EachItemChangesOneCounter ==
    /\ obs.lastItem.status # "none"
         => LET before == obs.lastItem.stats
                r == obs.lastItem.status
            IN /\ stats.downloaded
                    = before.downloaded + (IF r = "success" THEN 1 ELSE 0)
               /\ stats.skipped
                    = before.skipped + (IF r = "skipped" THEN 1 ELSE 0)
               /\ stats.failed
                    = before.failed + (IF r \in {"failed", "threw"} THEN 1 ELSE 0)
               /\ r \in {"success", "skipped", "failed", "threw"}
    /\ (pc \in InLoop \cup {"done"})
         => stats.downloaded + stats.skipped + stats.failed
              = loaded.downloaded + loaded.skipped + Len(loaded.failed)
                  + obs.handled

\* the summary of a run that loaded counters and failures of a killed run
\* and then skipped, downloaded and failed items over more than a page
C21_Witness ==
    /\ pc = "summary"
    /\ loaded.downloaded > 0
    /\ loaded.failed # <<>>
    /\ stats.skipped > loaded.skipped
    /\ stats.downloaded > loaded.downloaded
    /\ stats.failed > Len(loaded.failed)
    /\ obs.handled > limit

====
